---- MODULE Spec2Model ----
(***************************************************************************)
(* Marmot-TS: MLS groups over Nostr relays.                                *)
(*                                                                         *)
(* The model covers the group event ingest pipeline of a group runtime     *)
(* (MarmotGroup.ingest), the per-group history store with its resume       *)
(* cursor, the group-state store, the relay subscription handler that      *)
(* feeds ingest, and the invite (commit, then Welcome) publish order.      *)
(*                                                                         *)
(* Outer ids are 64-character lowercase hex strings in the program and     *)
(* are compared as strings; here an id is a natural number and the order   *)
(* of the numbers is the lexicographic order of the strings.               *)
(***************************************************************************)
EXTENDS Integers, Sequences, FiniteSets, TLC

(***************************************************************************)
(* Bounds of the model.                                                    *)
(***************************************************************************)
\* events handed to the ingest calls of one runtime, over all its calls, in
\* the single-runtime specification
MaxDelivered == 3
\* the same for each member of the two-member specification
PairDelivered == 2
\* invitations the admin issues in the invitation specification
MaxInvites == 2
MaxLoads == 3
MaxAdds == 2
MaxLimit == 3
MaxKeyPackages == 3
MaxAdmins == 2
MaxRumors == 3
MaxEpoch == 3
MaxSubs == 2
MaxMessages == 4

\* JavaScript null for "no cursor yet"
NoCursor == [created_at |-> -1, id |-> -1]

\* a comparator that looks at the timestamp alone (what the single-comparator
\* rule forbids)
compareCursorTimestampOnly(a, b) ==
  IF a.created_at # b.created_at
    THEN (IF a.created_at < b.created_at THEN -1 ELSE 1)
    ELSE 0

\* a comparator that breaks timestamp ties by the larger id
compareCursorLargestIdFirst(a, b) ==
  IF a.created_at # b.created_at
    THEN (IF a.created_at < b.created_at THEN -1 ELSE 1)
    ELSE IF a.id = b.id THEN 0
    ELSE IF a.id > b.id THEN -1 ELSE 1

compareCursor(a, b) ==
  IF a.created_at # b.created_at
    THEN (IF a.created_at < b.created_at THEN -1 ELSE 1)
    ELSE IF a.id = b.id THEN 0
    ELSE IF a.id < b.id THEN -1 ELSE 1

(***************************************************************************)
(* The outer group events (kind 445) that relays can deliver.              *)
(*   kind     what the MLS content turns out to be; "garbage" never        *)
(*            decrypts                                                     *)
(*   epoch    the epoch the sender built it in                             *)
(*   parent   the commits applied in the sender's state                    *)
(*   sender   the Nostr pubkey the sender's MLS credential maps to         *)
(*   rumor    id of the inner rumor of an application message              *)
(***************************************************************************)
EventIds == 1..7

OuterEvent(i) ==
  CASE i = 1 -> [id |-> 1, created_at |-> 10, kind |-> "commit", epoch |-> 0,
                 parent |-> <<>>, sender |-> "A", rumor |-> 0]
    [] i = 2 -> [id |-> 2, created_at |-> 10, kind |-> "commit", epoch |-> 0,
                 parent |-> <<>>, sender |-> "A", rumor |-> 0]
    [] i = 3 -> [id |-> 3, created_at |-> 9, kind |-> "commit", epoch |-> 0,
                 parent |-> <<>>, sender |-> "B", rumor |-> 0]
    [] i = 4 -> [id |-> 4, created_at |-> 11, kind |-> "app", epoch |-> 0,
                 parent |-> <<>>, sender |-> "B", rumor |-> 104]
    [] i = 5 -> [id |-> 5, created_at |-> 12, kind |-> "app", epoch |-> 1,
                 parent |-> <<1>>, sender |-> "A", rumor |-> 105]
    [] i = 6 -> [id |-> 6, created_at |-> 13, kind |-> "garbage", epoch |-> 0,
                 parent |-> <<>>, sender |-> "B", rumor |-> 0]
    [] i = 7 -> [id |-> 7, created_at |-> 10, kind |-> "proposal", epoch |-> 0,
                 parent |-> <<>>, sender |-> "B", rumor |-> 0]

Cursor(i) == [created_at |-> OuterEvent(i).created_at, id |-> i]

\* the events of the single-runtime specification
SoloEventIds == {1, 3, 4, 5, 6}

\* the events of the two-member specification
PairEventIds == {1, 2, 3, 4, 5}

(***************************************************************************)
(* Sequences.                                                              *)
(***************************************************************************)
Range(s) == {s[k] : k \in 1..Len(s)}

SeqsUpTo(S, n) == UNION {[1..k -> S] : k \in 1..n}

\* the largest cursor of a set of event ids, or c0 when none is larger
RECURSIVE MaxCursor(_, _)
MaxCursor(c0, ids) ==
  IF ids = {} THEN c0
  ELSE LET i == CHOOSE x \in ids : TRUE
           rest == MaxCursor(c0, ids \ {i})
       IN IF rest = NoCursor \/ compareCursor(rest, Cursor(i)) = -1
            THEN Cursor(i) ELSE rest

(***************************************************************************)
(* History store: MarmotGroupHistoryStore over its backend.                *)
(***************************************************************************)
\* a backend that stores the last cursor it is given
markOuterEventProcessedLastWins(prev, outer) == outer

\* MemoryHistoryBackend.markOuterEventProcessed: the processed cursor of the
\* group after marking `outer`, given the cursor `prev` stored before
\* a store that never moves its cursor once it is set
markOuterEventProcessedKeepFirst(prev, outer) ==
  IF prev = NoCursor THEN outer ELSE prev

\* a store that compares the timestamps of the cursors only
markOuterEventProcessedByTime(prev, outer) ==
  IF prev = NoCursor THEN outer
  ELSE IF prev.created_at < outer.created_at THEN outer
  ELSE prev

markOuterEventProcessed(prev, outer) ==
  IF prev = NoCursor THEN outer
  ELSE IF prev.created_at < outer.created_at
          \/ (prev.created_at = outer.created_at /\ prev.id < outer.id)
    THEN outer
  ELSE prev

\* MemoryHistoryBackend.getResumeCursor
getResumeCursor(processed) == processed

\* a filter that compares the timestamps only
olderThanByTime(outer, until) == outer.created_at < until.created_at

\* MemoryHistoryBackend.queryRumors, the `until` filter: strictly older than
\* the cursor
olderThan(outer, until) ==
  IF outer.created_at # until.created_at
    THEN outer.created_at < until.created_at
    ELSE outer.id < until.id

\* MemoryHistoryBackend.queryRumors, the sort: newest first by outer cursor
RECURSIVE newestFirst(_)
newestFirst(entries) ==
  IF entries = {} THEN <<>>
  ELSE LET x == CHOOSE x \in entries :
                  \A y \in entries :
                    \/ y.outer.created_at < x.outer.created_at
                    \/ /\ y.outer.created_at = x.outer.created_at
                       /\ y.outer.id <= x.outer.id
       IN <<x>> \o newestFirst(entries \ {x})

\* MemoryHistoryBackend.queryRumors before the rumors are taken out of the
\* entries: sorted, filtered by `until` when it is given, cut at `limit`
queryEntries(entries, until, limit) ==
  LET list == newestFirst(entries)
      filtered == IF until # NoCursor
                    THEN SelectSeq(list, LAMBDA x : olderThan(x.outer, until))
                    ELSE list
  IN SubSeq(filtered, 1, IF limit < Len(filtered) THEN limit ELSE Len(filtered))

\* MemoryHistoryBackend.queryRumors
queryRumors(entries, until, limit) ==
  LET page == queryEntries(entries, until, limit)
  IN [k \in 1..Len(page) |-> page[k].rumor]

\* MemoryHistoryBackend.addRumor: entries are keyed by the outer cursor and
\* an existing key is kept
addRumor(entries, entry) ==
  IF \E x \in entries : x.outer = entry.outer THEN entries
  ELSE entries \cup {entry}

(***************************************************************************)
(* The MLS provider and the admin policy, as the group runtime uses them.  *)
(***************************************************************************)
\* Marmot group data: the admin set of the group
adminPubkeys == {"A"}

\* MLS client state: the epoch, the commits applied so far, the application
\* messages whose ratchet key was used up in this epoch, the cached proposals
InitialState == [epoch |-> 0, commits |-> <<>>, consumed |-> {}, proposals |-> {}]

\* retries of the unreadable set in one ingest call
maxRetries == 3

\* the outer layer opens under the exporter secret of the state's epoch
\* a provider that decrypts messages of any epoch
DecryptableAnyEpoch(st, i) == OuterEvent(i).kind # "garbage"

Decryptable(st, i) ==
  /\ OuterEvent(i).kind # "garbage"
  /\ OuterEvent(i).epoch = st.epoch
  /\ OuterEvent(i).parent = st.commits

\* a policy that accepts every sender
adminCommitPolicyAcceptAll(i) == "accept"

\* the admin policy callback: accept iff the sender's pubkey is an admin
adminCommitPolicy(i) ==
  IF OuterEvent(i).sender \in adminPubkeys THEN "accept" ELSE "reject"

\* processMessage of the MLS provider with the admin callback: the new state
\* and the classified outcome
processMessage(st, i) ==
  LET e == OuterEvent(i) IN
  IF ~Decryptable(st, i)
    THEN [state |-> st,
          result |-> IF e.kind = "commit" THEN "loser" ELSE "unreadable"]
  ELSE IF e.kind = "app"
    THEN IF i \in st.consumed
           THEN [state |-> st, result |-> "unreadable"]
           ELSE [state |-> [st EXCEPT !.consumed = @ \cup {i}],
                 result |-> "applicationMessage"]
  ELSE IF e.kind = "proposal"
    THEN [state |-> [st EXCEPT !.proposals = @ \cup {i}], result |-> "proposal"]
  ELSE IF adminCommitPolicy(i) = "reject"
    THEN [state |-> st, result |-> "rejected"]
  ELSE [state |-> [epoch |-> st.epoch + 1, commits |-> Append(st.commits, i),
                   consumed |-> {}, proposals |-> {}],
        result |-> "newState"]

(***************************************************************************)
(* Ordering inside one ingest call.                                        *)
(***************************************************************************)
\* non-commits by (created_at, id); commits by (epoch, created_at, id)
Before(byEpoch, i, j) ==
  IF byEpoch /\ OuterEvent(i).epoch # OuterEvent(j).epoch
    THEN OuterEvent(i).epoch < OuterEvent(j).epoch
    ELSE compareCursor(Cursor(i), Cursor(j)) = -1

\* Array.prototype.sort is stable: equal elements keep their arrival order
RECURSIVE Insert(_, _, _)
Insert(sorted, x, byEpoch) ==
  IF sorted = <<>> THEN <<x>>
  ELSE IF Before(byEpoch, x, Head(sorted)) THEN <<x>> \o sorted
  ELSE <<Head(sorted)>> \o Insert(Tail(sorted), x, byEpoch)

RECURSIVE Sort(_, _)
Sort(ids, byEpoch) ==
  IF ids = <<>> THEN <<>>
  ELSE Insert(Sort(SubSeq(ids, 1, Len(ids) - 1), byEpoch), ids[Len(ids)], byEpoch)

\* the events of a batch that are new, in arrival order, each once
RECURSIVE Dedupe(_, _)
Dedupe(batch, seen) ==
  IF batch = <<>> THEN <<>>
  ELSE IF Head(batch) \in seen THEN Dedupe(Tail(batch), seen)
  ELSE <<Head(batch)>> \o Dedupe(Tail(batch), seen \cup {Head(batch)})

(***************************************************************************)
(* The group runtime (MarmotGroup) of one member with its stores.          *)
(*   state         the MLS client state in memory                          *)
(*   store         the snapshot in the group-state store                   *)
(*   processed     the history store's processed (resume) cursor           *)
(*   rumors        the history store's entries                             *)
(*   seenEventIds  outer ids already classified by this runtime            *)
(*   pc            "idle", or "run" while an ingest call is in progress    *)
(*   nonCommits, commits, unreadable, retryCount                           *)
(*                 the work lists of the ingest call in progress           *)
(*   batch         the new events of the call in progress                  *)
(*   base          the runtime and its stores when the call started        *)
(*   historyFailed a history write of the call failed (the hook saw it)    *)
(*   lastResult    the outcome yielded last                                *)
(*   ended         how the last call ended                                 *)
(*   crash         the call a crash interrupted, while it is being         *)
(*                 ingested again                                          *)
(***************************************************************************)
NoBase ==
  [state |-> InitialState, store |-> InitialState, processed |-> NoCursor,
   rumors |-> {}, seenEventIds |-> {}]

NoCrash == [phase |-> "none", base |-> NoBase, batch |-> <<>>]

NoResult == [id |-> 0, kind |-> "none"]

\* what the stores hold
View(R) == [store |-> R.store, processed |-> R.processed, rumors |-> R.rumors]

Snapshot(R) ==
  [state |-> R.state, store |-> R.store, processed |-> R.processed,
   rumors |-> R.rumors, seenEventIds |-> R.seenEventIds]

NewRuntime ==
  [state |-> InitialState, store |-> InitialState, processed |-> NoCursor,
   rumors |-> {}, seenEventIds |-> {}, pc |-> "idle", nonCommits |-> <<>>,
   commits |-> <<>>, unreadable |-> <<>>, retryCount |-> 0, batch |-> <<>>,
   base |-> NoBase, historyFailed |-> FALSE, lastResult |-> NoResult,
   ended |-> "none", crash |-> NoCrash]

\* an idle runtime in the given condition
FromSnapshot(b) ==
  [NewRuntime EXCEPT !.state = b.state, !.store = b.store,
                     !.processed = b.processed, !.rumors = b.rumors,
                     !.seenEventIds = b.seenEventIds]

\* the work lists of a round over `ids`: what decrypts now is split into
\* non-commits and commits, each sorted; the rest waits in the unreadable set
Classify(R, ids) ==
  LET readable == SelectSeq(ids, LAMBDA i : Decryptable(R.state, i))
  IN [R EXCEPT
        !.nonCommits = Sort(SelectSeq(readable,
                         LAMBDA i : OuterEvent(i).kind # "commit"), FALSE),
        !.commits = Sort(SelectSeq(readable,
                         LAMBDA i : OuterEvent(i).kind = "commit"), TRUE),
        !.unreadable = SelectSeq(ids, LAMBDA i : ~Decryptable(R.state, i))]

\* ingest(batch): deduplicate against the seen-set, decrypt and classify
StartIngest(R, events) ==
  LET fresh == Dedupe(events, R.seenEventIds)
  IN Classify([R EXCEPT !.pc = "run", !.retryCount = 0, !.batch = fresh,
                        !.base = Snapshot(R), !.historyFailed = FALSE,
                        !.lastResult = NoResult, !.ended = "none"], fresh)

\* the event the call works on next
HasWork(R) == R.nonCommits # <<>> \/ R.commits # <<>>

HeadEvent(R) == IF R.nonCommits # <<>> THEN Head(R.nonCommits) ELSE Head(R.commits)

PopHead(R) ==
  IF R.nonCommits # <<>> THEN [R EXCEPT !.nonCommits = Tail(@)]
  ELSE [R EXCEPT !.commits = Tail(@)]

\* the history writes for a classified event: the processed cursor, and the
\* rumor of an application message
RecordHistory(R, i, result) ==
  [R EXCEPT
     !.processed = markOuterEventProcessed(@, Cursor(i)),
     !.rumors = IF result = "applicationMessage"
                  THEN addRumor(@, [rumor |-> OuterEvent(i).rumor,
                                    outer |-> Cursor(i)])
                  ELSE @]

\* one event through the MLS provider: the state is replaced and persisted,
\* then the history is written; a failing history write is reported to the
\* hook and the call goes on
\* a runtime that writes history before the MLS state and drops the event when
\* the history write fails
ProcessEventHistoryFirst(R, historyOk) ==
  LET i == HeadEvent(R)
      m == processMessage(R.state, i)
      R1 == [PopHead(R) EXCEPT !.lastResult = [id |-> i, kind |-> m.result]]
  IN IF m.result = "unreadable"
       THEN [R1 EXCEPT !.unreadable = Append(@, i)]
     ELSE IF historyOk
       THEN [RecordHistory(R1, i, m.result) EXCEPT
               !.state = m.state,
               !.store = IF m.state # R.state THEN m.state ELSE @,
               !.seenEventIds = @ \cup {i}]
     ELSE [R1 EXCEPT !.seenEventIds = @ \cup {i}, !.historyFailed = TRUE]

\* a runtime in which an event that is not applied ends the work of the call
ProcessEventAbortOnFailure(R, historyOk) ==
  LET i == HeadEvent(R)
      m == processMessage(R.state, i)
      R1 == [PopHead(R) EXCEPT !.state = m.state,
                               !.store = IF m.state # R.state THEN m.state ELSE @,
                               !.lastResult = [id |-> i, kind |-> m.result]]
  IN IF m.result \in {"unreadable", "rejected", "loser"}
       THEN [R1 EXCEPT !.nonCommits = <<>>, !.commits = <<>>, !.unreadable = <<>>]
     ELSE IF historyOk
       THEN [RecordHistory(R1, i, m.result) EXCEPT !.seenEventIds = @ \cup {i}]
     ELSE [R1 EXCEPT !.seenEventIds = @ \cup {i}, !.historyFailed = TRUE]

ProcessEvent(R, historyOk) ==
  LET i == HeadEvent(R)
      m == processMessage(R.state, i)
      R1 == [PopHead(R) EXCEPT !.state = m.state,
                               !.store = IF m.state # R.state THEN m.state ELSE @,
                               !.lastResult = [id |-> i, kind |-> m.result]]
  IN IF m.result = "unreadable"
       THEN [R1 EXCEPT !.unreadable = Append(@, i)]
     ELSE IF historyOk
       THEN [RecordHistory(R1, i, m.result) EXCEPT !.seenEventIds = @ \cup {i}]
     ELSE [R1 EXCEPT !.seenEventIds = @ \cup {i}, !.historyFailed = TRUE]

\* a retry loop that does not count its rounds
RetryUnreadableUncounted(R) ==
  Classify([R EXCEPT !.lastResult = NoResult], R.unreadable)

\* the unreadable set is tried again under the state reached so far
CanRetry(R) == ~HasWork(R) /\ R.unreadable # <<>> /\ R.retryCount < maxRetries

RetryUnreadable(R) ==
  Classify([R EXCEPT !.retryCount = @ + 1, !.lastResult = NoResult], R.unreadable)

\* what is still unreadable when the retries are used up is recorded as
\* processed; the call ends
CanFinish(R) ==
  ~HasWork(R) /\ (R.unreadable = <<>> \/ R.retryCount >= maxRetries)

RECURSIVE MarkAll(_, _)
MarkAll(processed, ids) ==
  IF ids = <<>> THEN processed
  ELSE MarkAll(markOuterEventProcessed(processed, Cursor(Head(ids))), Tail(ids))

EndCall(R, how) ==
  [R EXCEPT !.pc = "idle", !.nonCommits = <<>>, !.commits = <<>>,
            !.unreadable = <<>>, !.retryCount = 0, !.batch = <<>>,
            !.base = NoBase, !.lastResult = NoResult, !.ended = how]

FinishIngest(R, historyOk) ==
  EndCall([R EXCEPT
             !.processed = IF historyOk THEN MarkAll(@, R.unreadable) ELSE @,
             !.historyFailed = @ \/ (~historyOk /\ R.unreadable # <<>>),
             !.seenEventIds = @ \cup Range(R.unreadable)], "done")

\* a whole ingest call with no failure and no interruption
RECURSIVE RunToEnd(_)
RunToEnd(R) ==
  IF R.pc = "idle" THEN R
  ELSE IF HasWork(R) THEN RunToEnd(ProcessEvent(R, TRUE))
  ELSE IF CanRetry(R) THEN RunToEnd(RetryUnreadable(R))
  ELSE FinishIngest(R, TRUE)

ingest(R, events) == RunToEnd(StartIngest(R, events))

\* the events of a sequence ingested one by one, in the order given
RECURSIVE IngestEach(_, _)
IngestEach(R, ids) ==
  IF ids = <<>> THEN R
  ELSE IngestEach(ingest(R, <<Head(ids)>>), Tail(ids))

\* the runtime is dropped and loaded again from the group-state store
Reload(R, how) ==
  [EndCall(R, how) EXCEPT !.state = R.store, !.seenEventIds = {},
                          !.historyFailed = FALSE]

(***************************************************************************)
(* State.                                                                  *)
(***************************************************************************)
Members == {1, 2}

VARIABLES
  group,      \* group[m]: the runtime of member m
  delivered,  \* delivered[m]: the event ids handed to m's first ingest call,
              \* those handed to its later calls, and the number of calls
  events,     \* MockNetwork.events: what the relays hold, in publish order
  admin,      \* the inviting admin's group runtime during commit()
  client,     \* a MarmotClient: its cache of group runtimes and its callers
  hist,       \* a MarmotGroupHistoryStore over a MemoryHistoryBackend
  pager,      \* a reader paging through the history with queryRumors
  calc,       \* a call of a function of the library: arguments and result
  joiner,     \* a joinGroupFromWelcome call and the stores it uses
  life,       \* life[g]: a stored group through destroyGroup(g)
  loader,     \* a createPaginatedLoader generator drained by for-await
  gstore,     \* the group store and #groups for one group id
  mgr,        \* a GroupSubscriptionManager and its relay subscriptions
  chat        \* the message list of a chat view

vars == <<group, delivered, events, admin, client, hist, pager, calc, joiner,
          life, loader, gstore, mgr, chat>>

ingestVars == <<group, delivered>>
inviteVars == <<events, admin>>
otherVars == <<client, hist, pager, calc, joiner, life, loader, gstore, mgr, chat>>

Relays == {"wss://r1", "wss://r2"}
Invitees == {"B", "C"}

GROUP_EVENT_KIND == 445
GIFT_WRAP_KIND == 1059

NewAdmin ==
  [pc |-> "idle", epoch |-> 0, stored |-> 0, invite |-> 0, invitees |-> {},
   acks |-> {}, error |-> "none", before |-> 0, storedBefore |-> 0]

\* a MarmotClient with nothing loaded; one group id, stored in the group store
Callers == {"a", "b"}

NewClient ==
  [groups |-> 0,        \* #groups.get(id): the cached instance, 0 for none
   instances |-> 0,     \* MarmotGroup instances constructed so far
   reads |-> 0,         \* reads of the group store started so far
   unloads |-> 0,       \* unloadGroup calls so far
   call |-> [c \in Callers |-> [pc |-> "idle", since |-> 0]],
   returned |-> {}]     \* what the getGroup calls returned

\* a history store of one group: the outer cursors and rumors it is called with
HistCursors ==
  {[created_at |-> 10, id |-> 2], [created_at |-> 10, id |-> 1],
   [created_at |-> 11, id |-> 1]}

\* the rumor an outer event carries: rumor 201 was sent in two outer events
HistRumorOf(c) == IF c.created_at = 10 THEN 201 ELSE 202

HistEntries == {[rumor |-> HistRumorOf(c), outer |-> c] : c \in HistCursors}

NewHistory ==
  [entries |-> {},        \* the backend's rumors of the group
   processed |-> NoCursor, \* the backend's processed cursor of the group
   marked |-> {},         \* the cursors markOuterEventProcessed was called with
   subscribed |-> FALSE,  \* a handler is registered for "rumor"
   calls |-> <<>>,        \* backend writes and handler calls, in order
   adds |-> 0]            \* addRumor calls so far

\* the local key packages: 1 and 3 are single-use, 2 carries the last_resort
\* extension, 4 is of another ciphersuite
KeyPackageIds == 1..4

KeyPackage(i) ==
  [keyPackageRef |-> i,
   cipherSuite |-> IF i = 4 THEN 2 ELSE 1,
   lastResort |-> i = 2]

\* a Welcome: its ciphersuite, the KeyPackageRefs of its secrets, and the key
\* packages joinGroup succeeds with
NoWelcome == [cipherSuite |-> 1, secrets |-> {}, joinable |-> {}]

\* a client that has not been asked to join: the key-package store in list()
\* order, nothing in the group store, nothing cached, nothing emitted
NewJoiner ==
  [pc |-> "idle", keyPackages |-> <<>>, welcome |-> NoWelcome,
   candidates |-> <<>>, attempts |-> <<>>, lastError |-> 0, used |-> 0,
   stored |-> FALSE, cached |-> FALSE, groupJoined |-> FALSE, error |-> "none"]

\* two groups of one client, each with its MLS state in the group store and
\* rumors in its history
GroupIds == {"g1", "g2"}

StoredGroup ==
  [pc |-> "idle",        \* the destroyGroup call: idle, destroy, resolved
   cached |-> FALSE,     \* #groups holds an instance
   state |-> TRUE,       \* the group store holds the MLS state
   history |-> TRUE,     \* the history holds rumors
   remove |-> "none",    \* the groupStore.remove call: none, started, done
   get |-> "none"]       \* a getGroup after destroyGroup: none, loaded, failed

\* no function was called
NoCall == [op |-> "none"]

\* a paginated loader that has not been created: no rumors, nothing loaded
NoUntil == [set |-> FALSE, at |-> 0]

\* the group store and the client's cache for one group id: the epoch of the
\* stored state and of the cached runtime's state (NoState: none), and the
\* importGroupFromClientState call of each caller
NoState == -1

NewGroupStore ==
  [stored |-> NoState, cached |-> NoState, op |-> "none", emitted |-> "none",
   import |-> [c \in Callers |-> [pc |-> "idle", epoch |-> 0]]]

\* a GroupSubscriptionManager over one group of the group store, before
\* start(): the group's MLS id and the routing id its events carry, the
\* entry of groupSubscriptions (0: none), the relay subscriptions that are
\* open, each subscription's seenEventIds and the events it has ingested,
\* and the two callers of reconcileSubscriptions
Reconcilers == {"start", "groupStore$"}

IdleReconcile == [pc |-> "idle", sid |-> 0]

NewManager(nostrGroupId) ==
  [isActive |-> FALSE, inStore |-> TRUE,
   groupId |-> "g1", nostrGroupId |-> nostrGroupId,
   groupSubscriptions |-> 0, open |-> {}, made |-> 0,
   seenEventIds |-> [s \in 1..MaxSubs |-> {}],
   ingested |-> [s \in 1..MaxSubs |-> {}],
   call |-> [t \in Reconcilers |-> IdleReconcile]]

\* the chat view before any rumor has arrived: the rumors' created_at by
\* rumor id, and the message list of the view (rumor ids)
NewChat(times) == [created_at |-> times, messages |-> <<>>]

NewLoader ==
  [pc |-> "done", stored |-> {}, limit |-> 1, until |-> NoUntil,
   cursor |-> NoUntil, queries |-> 0, seen |-> <<>>, received |-> {},
   returned |-> {}]

\* a reader that has not asked for a page yet
NewPager(limit) ==
  [limit |-> limit,      \* filter.limit of every query
   until |-> NoCursor,   \* filter.until of the next query, undefined at first
   seen |-> <<>>,        \* the entries of the pages so far
   done |-> FALSE]       \* an empty page came back

NothingDelivered == [first |-> {}, later |-> {}, calls |-> 0, count |-> 0]

\* the single-runtime specification counts deliveries only
Count(d, batch) ==
  [d EXCEPT !.calls = @ + 1, !.count = @ + Len(batch)]

Deliver(d, batch) ==
  IF d.calls = 0
    THEN [first |-> Range(batch), later |-> {}, calls |-> 1, count |-> Len(batch)]
    ELSE [d EXCEPT !.later = @ \cup Range(batch), !.calls = @ + 1,
                   !.count = @ + Len(batch)]

Init ==
  /\ group = [m \in Members |-> NewRuntime]
  /\ delivered = [m \in Members |-> NothingDelivered]
  /\ events = <<>>
  /\ admin = NewAdmin
  /\ client = NewClient
  /\ chat = NewChat(<<>>)
  /\ mgr = NewManager("g1")
  /\ gstore = NewGroupStore
  /\ loader = NewLoader
  /\ life = [g \in GroupIds |-> StoredGroup]
  /\ joiner = NewJoiner
  /\ hist = NewHistory
  /\ pager = NewPager(1)
  /\ calc = NoCall

(***************************************************************************)
(* One member, step by step, with failures and interruptions.              *)
(***************************************************************************)
\* bookkeeping of the interrupted call: a call that starts right after a crash
\* with the batch of the interrupted call ingests that batch again
Replaying(R, R1) ==
  IF R.crash.phase = "crashed" /\ R1.batch = R.crash.batch
    THEN [R1 EXCEPT !.crash.phase = "replaying"]
    ELSE [R1 EXCEPT !.crash = NoCrash]

Crashed(R, R1) ==
  IF R.crash.phase = "replaying"
    THEN [R1 EXCEPT !.crash.phase = "crashed"]
    ELSE [R1 EXCEPT !.crash = [phase |-> "crashed", base |-> R.base, batch |-> R.batch]]

Forget(R) == [R EXCEPT !.crash = NoCrash]

\* ingest(events) is called
Ingest(m) ==
  /\ group[m].pc = "idle"
  /\ delivered[m].count < MaxDelivered
  /\ \E batch \in SeqsUpTo(SoloEventIds, MaxDelivered - delivered[m].count) :
       /\ group' = [group EXCEPT ![m] = Replaying(@, StartIngest(@, batch))]
       /\ delivered' = [delivered EXCEPT ![m] = Count(@, batch)]
  /\ UNCHANGED <<inviteVars, otherVars>>

\* the next event of the call is processed
Process(m) ==
  /\ group[m].pc = "run"
  /\ HasWork(group[m])
  /\ \E historyOk \in BOOLEAN :
       group' = [group EXCEPT ![m] = ProcessEvent(@, historyOk)]
  /\ UNCHANGED <<delivered, inviteVars, otherVars>>

Retry(m) ==
  /\ group[m].pc = "run"
  /\ CanRetry(group[m])
  /\ group' = [group EXCEPT ![m] = RetryUnreadable(@)]
  /\ UNCHANGED <<delivered, inviteVars, otherVars>>

Complete(m) ==
  /\ group[m].pc = "run"
  /\ CanFinish(group[m])
  /\ \E historyOk \in BOOLEAN :
       group' = [group EXCEPT ![m] = Forget(FinishIngest(@, historyOk))]
  /\ UNCHANGED <<delivered, inviteVars, otherVars>>

\* the caller stops draining the generator between two events
Cancel(m) ==
  /\ group[m].pc = "run"
  /\ group' = [group EXCEPT ![m] = Forget(EndCall(@, "cancelled"))]
  /\ UNCHANGED <<delivered, inviteVars, otherVars>>

\* the process stops after the state of the next event was written and before
\* its history writes; the runtime is loaded again from the store
CrashAfterStateWrite(m) ==
  /\ group[m].pc = "run"
  /\ HasWork(group[m])
  /\ LET R == group[m]
         st == processMessage(R.state, HeadEvent(R)).state
     IN /\ st # R.state
        /\ group' = [group EXCEPT
                       ![m] = Crashed(R, Reload([R EXCEPT !.store = st], "crashed"))]
  /\ UNCHANGED <<delivered, inviteVars, otherVars>>

\* the group-state store rejects the write of a new state: the error is
\* thrown out of ingest
StateStoreFails(m) ==
  /\ group[m].pc = "run"
  /\ HasWork(group[m])
  /\ LET R == group[m]
         st == processMessage(R.state, HeadEvent(R)).state
     IN /\ st # R.state
        /\ group' = [group EXCEPT
                       ![m] = Forget(EndCall([R EXCEPT !.state = st], "halted"))]
  /\ UNCHANGED <<delivered, inviteVars, otherVars>>

\* the group is unloaded and loaded again
Restart(m) ==
  /\ group[m].pc = "idle"
  /\ group[m].state # group[m].store \/ group[m].seenEventIds # {}
  /\ group' = [group EXCEPT ![m] = Forget(Reload(@, group[m].ended))]
  /\ UNCHANGED <<delivered, inviteVars, otherVars>>

\* markOuterEventProcessed is called on the history store directly
MarkProcessed(m) ==
  /\ group[m].pc = "idle"
  /\ \E i \in SoloEventIds :
       group' = [group EXCEPT
                   ![m] = Forget([@ EXCEPT
                            !.processed = markOuterEventProcessed(@, Cursor(i))])]
  /\ UNCHANGED <<delivered, inviteVars, otherVars>>

Next ==
  \/ Ingest(1)
  \/ Process(1)
  \/ Retry(1)
  \/ Complete(1)
  \/ Cancel(1)
  \/ CrashAfterStateWrite(1)
  \/ StateStoreFails(1)
  \/ Restart(1)
  \/ MarkProcessed(1)

Spec == Init /\ [][Next]_vars

\* the caller keeps draining the generator: a step of the call that stays
\* possible is eventually taken
SpecLive ==
  /\ Init
  /\ [][Next]_vars
  /\ WF_vars(Process(1))
  /\ WF_vars(Retry(1))
  /\ WF_vars(Complete(1))

(***************************************************************************)
(* Two members, each call run to its end, no failures.                     *)
(***************************************************************************)
\* member m ingests a batch and drains the generator
IngestAll(m) ==
  /\ group[m].pc = "idle"
  /\ delivered[m].count < PairDelivered
  /\ \E batch \in SeqsUpTo(PairEventIds, PairDelivered - delivered[m].count) :
       /\ group' = [group EXCEPT ![m] = ingest(@, batch)]
       /\ delivered' = [delivered EXCEPT ![m] = Deliver(@, batch)]
  /\ UNCHANGED <<inviteVars, otherVars>>

NextPair ==
  \/ IngestAll(1)
  \/ IngestAll(2)

SpecPair == Init /\ [][NextPair]_vars

(***************************************************************************)
(* The admin invites: commit(), then the Welcomes.                         *)
(***************************************************************************)
\* MockNetwork.publish keeps the event; the response names the relays that
\* answered ok
publishFirst(stored, event) == <<event>> \o stored

publish(stored, event) == Append(stored, event)

\* a check that takes any response for an acknowledgement
hasAckAlways(response) == TRUE

hasAck(response) == response # {}

\* commit() is called with the key-package events of the invitees; the commit
\* is created against the current epoch
Commit ==
  /\ admin.pc = "idle"
  /\ admin.invite < MaxInvites
  /\ \E added \in (SUBSET Invitees) \ {{}} :
       admin' = [admin EXCEPT !.pc = "publish", !.invite = @ + 1,
                              !.invitees = added, !.acks = {}, !.error = "none",
                              !.before = admin.epoch,
                              !.storedBefore = admin.stored]
  /\ UNCHANGED <<events, ingestVars, otherVars>>

\* the commit envelope is published to the group's relays; any subset of them
\* acknowledges it
PublishCommit ==
  /\ admin.pc = "publish"
  /\ \E response \in SUBSET Relays :
       /\ events' = publish(events, [kind |-> GROUP_EVENT_KIND, invite |-> admin.invite,
                                     to |-> "group", acks |-> response])
       /\ admin' = [admin EXCEPT !.pc = "ack", !.acks = response]
  /\ UNCHANGED <<ingestVars, otherVars>>

\* publishing the commit envelope throws: the error propagates out of commit()
PublishFails ==
  /\ admin.pc = "publish"
  /\ admin' = [admin EXCEPT !.pc = "idle", !.invitees = {}, !.error = "PublishFailed"]
  /\ UNCHANGED <<events, ingestVars, otherVars>>

\* no relay acknowledged the commit: commit() throws and nothing else happens
NoRelayAck ==
  /\ admin.pc = "ack"
  /\ ~hasAck(admin.acks)
  /\ admin' = [admin EXCEPT !.pc = "idle", !.invitees = {}, !.error = "NoRelayAck"]
  /\ UNCHANGED <<events, ingestVars, otherVars>>

\* the commit was acknowledged: one Welcome is gift-wrapped and published to
\* an invitee's inbox relays
PublishWelcome ==
  /\ admin.pc = "ack"
  /\ hasAck(admin.acks)
  /\ \E b \in admin.invitees :
       /\ events' = publish(events, [kind |-> GIFT_WRAP_KIND, invite |-> admin.invite,
                                     to |-> b, acks |-> Relays])
       /\ admin' = [admin EXCEPT !.invitees = @ \ {b}]
  /\ UNCHANGED <<ingestVars, otherVars>>

\* every Welcome is out: the new state is persisted and commit() returns
PersistCommit ==
  /\ admin.pc = "ack"
  /\ hasAck(admin.acks)
  /\ admin.invitees = {}
  /\ admin' = [admin EXCEPT !.pc = "idle", !.epoch = @ + 1, !.stored = admin.epoch + 1]
  /\ UNCHANGED <<events, ingestVars, otherVars>>

\* commit() is cancelled, or a Welcome cannot be dispatched, after the
\* acknowledgement and before the Welcomes are all out: the remaining invitees
\* get no Welcome and the acknowledged state is installed; the sources do not
\* tell whether the snapshot is written on this path, so either happens
CancelCommit ==
  /\ admin.pc = "ack"
  /\ hasAck(admin.acks)
  /\ admin.invitees # {}
  /\ \E persisted \in BOOLEAN :
       admin' = [admin EXCEPT !.pc = "idle", !.epoch = @ + 1,
                              !.stored = IF persisted THEN admin.epoch + 1 ELSE @,
                              !.invitees = {}, !.error = "cancelled"]
  /\ UNCHANGED <<events, ingestVars, otherVars>>

NextInvite ==
  \/ Commit
  \/ PublishCommit
  \/ PublishFails
  \/ NoRelayAck
  \/ PublishWelcome
  \/ PersistCommit
  \/ CancelCommit

SpecInvite == Init /\ [][NextInvite]_vars

(***************************************************************************)
(* MarmotClient.getGroup: the cache of group runtimes.                     *)
(***************************************************************************)
\* getGroup up to its await: the cache is looked up; a hit returns the cached
\* instance, a miss starts loadGroup and suspends the call
GetGroup(c) ==
  /\ client.call[c].pc = "idle"
  /\ IF client.groups # 0
       THEN client' = [client EXCEPT
                         !.returned = @ \cup {[caller |-> c, instance |-> client.groups,
                                               unloads |-> client.unloads]}]
       ELSE /\ client.reads < MaxLoads
            /\ client' = [client EXCEPT
                            !.reads = @ + 1,
                            !.call[c] = [pc |-> "load", since |-> client.unloads]]
  /\ UNCHANGED <<ingestVars, inviteVars, hist, pager, calc, joiner, life, loader, gstore, mgr, chat>>

\* loadGroup resolves: the call continues after its await, puts the instance
\* it constructed into the cache and returns it
LoadGroup(c) ==
  /\ client.call[c].pc = "load"
  /\ LET loaded == client.instances + 1
     IN client' = [client EXCEPT
                     !.instances = loaded,
                     !.groups = loaded,
                     !.call[c] = [pc |-> "idle", since |-> 0],
                     !.returned = IF client.call[c].since = client.unloads
                                    THEN @ \cup {[caller |-> c, instance |-> loaded,
                                                  unloads |-> client.unloads]}
                                    ELSE @]
  /\ UNCHANGED <<ingestVars, inviteVars, hist, pager, calc, joiner, life, loader, gstore, mgr, chat>>

\* unloadGroup: the instance is dropped from the cache
UnloadGroup ==
  /\ client.groups # 0
  /\ client' = [client EXCEPT !.groups = 0, !.unloads = @ + 1]
  /\ UNCHANGED <<ingestVars, inviteVars, hist, pager, calc, joiner, life, loader, gstore, mgr, chat>>

NextClient ==
  \/ \E c \in Callers : GetGroup(c)
  \/ \E c \in Callers : LoadGroup(c)
  \/ UnloadGroup

SpecClient == Init /\ [][NextClient]_vars

(***************************************************************************)
(* MarmotGroupHistoryStore over the in-memory backend.                     *)
(***************************************************************************)
\* a store that notifies its subscribers whether or not the backend wrote
StoreAddRumorNotifyAlways(h, entry, ok) ==
  LET wrote == IF ok THEN [h EXCEPT !.entries = addRumor(@, entry),
                                    !.calls = Append(@, [what |-> "backend:addRumor",
                                                         rumor |-> entry.rumor])]
               ELSE [h EXCEPT !.calls = Append(@, [what |-> "backend:failed",
                                                   rumor |-> entry.rumor])]
  IN IF h.subscribed
       THEN [wrote EXCEPT !.calls = Append(@, [what |-> "subscriber",
                                               rumor |-> entry.rumor])]
       ELSE wrote

\* MarmotGroupHistoryStore.addRumor: await backend.addRumor, then emit "rumor";
\* a backend that throws ends the call before the emit
StoreAddRumor(h, entry, ok) ==
  IF ~ok
    THEN [h EXCEPT !.calls = Append(@, [what |-> "backend:failed",
                                        rumor |-> entry.rumor])]
  ELSE LET wrote == [h EXCEPT !.entries = addRumor(@, entry),
                              !.calls = Append(@, [what |-> "backend:addRumor",
                                                   rumor |-> entry.rumor])]
       IN IF h.subscribed
            THEN [wrote EXCEPT !.calls = Append(@, [what |-> "subscriber",
                                                    rumor |-> entry.rumor])]
            ELSE wrote

AddRumor ==
  /\ hist.adds < MaxAdds
  /\ \E entry \in HistEntries, ok \in BOOLEAN :
       hist' = [StoreAddRumor(hist, entry, ok) EXCEPT !.adds = @ + 1]
  /\ UNCHANGED <<ingestVars, inviteVars, client, pager, calc, joiner, life, loader, gstore, mgr, chat>>

\* MarmotGroupHistoryStore.markOuterEventProcessed
MarkOuterEventProcessed(c) ==
  /\ hist' = [hist EXCEPT !.processed = markOuterEventProcessed(@, c),
                          !.marked = @ \cup {c}]
  /\ UNCHANGED <<ingestVars, inviteVars, client, pager, calc, joiner, life, loader, gstore, mgr, chat>>

\* subscribe(handler) and the unsubscribe it returns
Subscribe ==
  /\ ~hist.subscribed
  /\ hist' = [hist EXCEPT !.subscribed = TRUE]
  /\ UNCHANGED <<ingestVars, inviteVars, client, pager, calc, joiner, life, loader, gstore, mgr, chat>>

Unsubscribe ==
  /\ hist.subscribed
  /\ hist' = [hist EXCEPT !.subscribed = FALSE]
  /\ UNCHANGED <<ingestVars, inviteVars, client, pager, calc, joiner, life, loader, gstore, mgr, chat>>

NextHistory ==
  \/ AddRumor
  \/ \E c \in HistCursors : MarkOuterEventProcessed(c)
  \/ Subscribe
  \/ Unsubscribe

SpecHistory == Init /\ [][NextHistory]_vars

(***************************************************************************)
(* Paging through a stored history, newest first.                          *)
(***************************************************************************)
\* a history in which three outer events share one second and two the next
PagerCursors ==
  {[created_at |-> 100, id |-> 1], [created_at |-> 100, id |-> 2],
   [created_at |-> 100, id |-> 3], [created_at |-> 101, id |-> 1],
   [created_at |-> 101, id |-> 2]}

PagerEntries ==
  {[rumor |-> 10 * c.created_at + c.id, outer |-> c] : c \in PagerCursors}

\* the entry of the history that holds a rumor
EntryOf(rumor) == CHOOSE x \in hist.entries : x.rumor = rumor

InitPager ==
  /\ group = [m \in Members |-> NewRuntime]
  /\ delivered = [m \in Members |-> NothingDelivered]
  /\ events = <<>>
  /\ admin = NewAdmin
  /\ client = NewClient
  /\ chat = NewChat(<<>>)
  /\ mgr = NewManager("g1")
  /\ gstore = NewGroupStore
  /\ loader = NewLoader
  /\ life = [g \in GroupIds |-> StoredGroup]
  /\ joiner = NewJoiner
  /\ \E stored \in SUBSET PagerEntries :
       hist = [NewHistory EXCEPT !.entries = stored]
  /\ \E limit \in 1..MaxLimit : pager = NewPager(limit)
  /\ calc = NoCall

\* a page with entries comes back: `until` becomes the cursor of its last,
\* the oldest, entry
LoadPage ==
  /\ ~pager.done
  /\ LET page == queryRumors(hist.entries, pager.until, pager.limit)
     IN /\ page # <<>>
        /\ pager' = [pager EXCEPT
                       !.seen = @ \o page,
                       !.until = EntryOf(page[Len(page)]).outer]
  /\ UNCHANGED <<ingestVars, inviteVars, client, hist, calc, joiner, life, loader, gstore, mgr, chat>>

\* an empty page comes back: the reader stops
LastPage ==
  /\ ~pager.done
  /\ queryRumors(hist.entries, pager.until, pager.limit) = <<>>
  /\ pager' = [pager EXCEPT !.done = TRUE]
  /\ UNCHANGED <<ingestVars, inviteVars, client, hist, calc, joiner, life, loader, gstore, mgr, chat>>

NextPager ==
  \/ LoadPage
  \/ LastPage

SpecPager == InitPager /\ [][NextPager]_vars

(***************************************************************************)
(* compareCursor on its own.                                               *)
(***************************************************************************)
\* outer cursors: three seconds, three ids in each
CompareCursors == {[created_at |-> t, id |-> i] : t \in 9..11, i \in 1..3}

InitCompare ==
  /\ group = [m \in Members |-> NewRuntime]
  /\ delivered = [m \in Members |-> NothingDelivered]
  /\ events = <<>>
  /\ admin = NewAdmin
  /\ client = NewClient
  /\ chat = NewChat(<<>>)
  /\ mgr = NewManager("g1")
  /\ gstore = NewGroupStore
  /\ loader = NewLoader
  /\ life = [g \in GroupIds |-> StoredGroup]
  /\ joiner = NewJoiner
  /\ hist = NewHistory
  /\ pager = NewPager(1)
  /\ \E a, b, c \in CompareCursors :
       calc = [op |-> "arguments", a |-> a, b |-> b, c |-> c]

\* the three cursors are compared with each other
Compare ==
  /\ calc.op = "arguments"
  /\ calc' = [op |-> "compareCursor", a |-> calc.a, b |-> calc.b, c |-> calc.c,
              ab |-> compareCursor(calc.a, calc.b),
              ba |-> compareCursor(calc.b, calc.a),
              bc |-> compareCursor(calc.b, calc.c),
              ac |-> compareCursor(calc.a, calc.c)]
  /\ UNCHANGED <<ingestVars, inviteVars, client, hist, pager, joiner, life, loader, gstore, mgr, chat>>

NextCompare == Compare

SpecCompare == InitCompare /\ [][NextCompare]_vars

(***************************************************************************)
(* MarmotClient.joinGroupFromWelcome.                                      *)
(***************************************************************************)
\* the key packages of the Welcome's ciphersuite, in list() order
candidatePackages(list, welcome) ==
  SelectSeq(list, LAMBDA i : KeyPackage(i).cipherSuite = welcome.cipherSuite)

hasMatchingSecret(i, welcome) == KeyPackage(i).keyPackageRef \in welcome.secrets

\* candidates tried in list() order
prioritizedKeyPackagesListOrder(list, welcome) == list

\* candidates with a matching secret first, the others after them
prioritizedKeyPackages(list, welcome) ==
  SelectSeq(list, LAMBDA i : hasMatchingSecret(i, welcome))
    \o SelectSeq(list, LAMBDA i : ~hasMatchingSecret(i, welcome))

\* an error variable that keeps the first error
lastErrorKeepFirst(lastError, i) == IF lastError = 0 THEN i ELSE lastError

\* the catch block: the error of the candidate that just failed
lastErrorAfter(lastError, i) == i

InitJoin ==
  /\ group = [m \in Members |-> NewRuntime]
  /\ delivered = [m \in Members |-> NothingDelivered]
  /\ events = <<>>
  /\ admin = NewAdmin
  /\ client = NewClient
  /\ chat = NewChat(<<>>)
  /\ mgr = NewManager("g1")
  /\ gstore = NewGroupStore
  /\ loader = NewLoader
  /\ life = [g \in GroupIds |-> StoredGroup]
  /\ hist = NewHistory
  /\ pager = NewPager(1)
  /\ calc = NoCall
  /\ \E list \in SeqsUpTo(KeyPackageIds, MaxKeyPackages),
        secrets \in SUBSET {1, 2, 3}, joinable \in SUBSET {1, 2, 3} :
       /\ \A j, k \in 1..Len(list) : list[j] = list[k] => j = k
       /\ joiner = [NewJoiner EXCEPT
                      !.keyPackages = list,
                      !.welcome = [cipherSuite |-> 1, secrets |-> secrets,
                                   joinable |-> joinable]]

\* joinGroupFromWelcome up to the loop: the candidates are collected and put
\* in priority order; with no candidate the call throws
CollectCandidates ==
  /\ joiner.pc = "idle"
  /\ LET found == candidatePackages(joiner.keyPackages, joiner.welcome)
     IN IF found = <<>>
          THEN joiner' = [joiner EXCEPT !.pc = "failed", !.error = "NoKeyPackage"]
          ELSE joiner' = [joiner EXCEPT
                            !.pc = "try",
                            !.candidates = prioritizedKeyPackages(found, joiner.welcome)]
  /\ UNCHANGED <<ingestVars, inviteVars, client, hist, pager, calc, life, loader, gstore, mgr, chat>>

\* one round of the loop: joinGroup with the next candidate; success leaves
\* the loop, failure is kept as the last error
TryKeyPackage ==
  /\ joiner.pc = "try"
  /\ joiner.candidates # <<>>
  /\ LET i == Head(joiner.candidates)
     IN IF i \in joiner.welcome.joinable
          THEN joiner' = [joiner EXCEPT !.pc = "joined", !.used = i,
                                        !.attempts = Append(@, i),
                                        !.candidates = Tail(@)]
          ELSE joiner' = [joiner EXCEPT !.lastError = lastErrorAfter(@, i),
                                        !.attempts = Append(@, i),
                                        !.candidates = Tail(@)]
  /\ UNCHANGED <<ingestVars, inviteVars, client, hist, pager, calc, life, loader, gstore, mgr, chat>>

\* every candidate failed: the call throws with the last error
AllKeyPackagesFailed ==
  /\ joiner.pc = "try"
  /\ joiner.candidates = <<>>
  /\ joiner' = [joiner EXCEPT !.pc = "failed", !.error = "JoinFailed"]
  /\ UNCHANGED <<ingestVars, inviteVars, client, hist, pager, calc, life, loader, gstore, mgr, chat>>

\* after the loop: the state is added to the group store, the MarmotGroup is
\* cached, groupJoined is emitted; the key-package store is not touched
SaveJoinedGroup ==
  /\ joiner.pc = "joined"
  /\ joiner' = [joiner EXCEPT !.pc = "done", !.stored = TRUE, !.cached = TRUE,
                              !.groupJoined = TRUE]
  /\ UNCHANGED <<ingestVars, inviteVars, client, hist, pager, calc, life, loader, gstore, mgr, chat>>

NextJoin ==
  \/ CollectCandidates
  \/ TryKeyPackage
  \/ AllKeyPackagesFailed
  \/ SaveJoinedGroup

SpecJoin == InitJoin /\ [][NextJoin]_vars

(***************************************************************************)
(* MarmotClient.destroyGroup.                                              *)
(***************************************************************************)
\* getGroup before the group is destroyed: the instance is loaded and cached
LoadBeforeDestroy(g) ==
  /\ life[g].pc = "idle"
  /\ ~life[g].cached
  /\ life' = [life EXCEPT ![g].cached = TRUE]
  /\ UNCHANGED <<ingestVars, inviteVars, client, hist, pager, calc, joiner, loader, gstore, mgr, chat>>

\* destroyGroup up to `await group.destroy()`: the cached instance or a
\* freshly loaded one
DestroyGroup(g) ==
  /\ life[g].pc = "idle"
  /\ life' = [life EXCEPT ![g].pc = "destroy"]
  /\ UNCHANGED <<ingestVars, inviteVars, client, hist, pager, calc, joiner, loader, gstore, mgr, chat>>

\* group.destroy() has resolved: the history is purged, and the runtime did
\* or did not remove the MLS state itself; destroyGroup goes on without an
\* await: groupStore.remove is called and not awaited, the cache entry is
\* deleted, the events are emitted and the promise resolves
DestroyResolves(g) ==
  /\ life[g].pc = "destroy"
  /\ \E removedByRuntime \in BOOLEAN :
       life' = [life EXCEPT ![g].pc = "resolved",
                            ![g].history = FALSE,
                            ![g].state = IF removedByRuntime THEN FALSE ELSE @,
                            ![g].remove = "started",
                            ![g].cached = FALSE]
  /\ UNCHANGED <<ingestVars, inviteVars, client, hist, pager, calc, joiner, loader, gstore, mgr, chat>>

\* GroupStore.remove gets past its awaits: the item is removed
StoreRemoves(g) ==
  /\ life[g].remove = "started"
  /\ life' = [life EXCEPT ![g].remove = "done", ![g].state = FALSE]
  /\ UNCHANGED <<ingestVars, inviteVars, client, hist, pager, calc, joiner, loader, gstore, mgr, chat>>

\* getGroup(g) issued after destroyGroup(g) resolved: a cache miss, then the
\* group store is read
GetDestroyedGroup(g) ==
  /\ life[g].pc = "resolved"
  /\ life[g].get = "none"
  /\ life' = [life EXCEPT ![g].get = IF life[g].state THEN "loaded" ELSE "failed",
                          ![g].cached = life[g].state]
  /\ UNCHANGED <<ingestVars, inviteVars, client, hist, pager, calc, joiner, loader, gstore, mgr, chat>>

NextDestroy ==
  \E g \in GroupIds :
    \/ LoadBeforeDestroy(g)
    \/ DestroyGroup(g)
    \/ DestroyResolves(g)
    \/ StoreRemoves(g)
    \/ GetDestroyedGroup(g)

SpecDestroy == Init /\ [][NextDestroy]_vars

(***************************************************************************)
(* MarmotClient.createGroup: the admin list of a new group.                *)
(***************************************************************************)
Pubkeys == {"A", "B", "C", "D"}

\* options.adminPubkeys: omitted, or a list of pubkeys
AdminOptions ==
  {[given |-> FALSE, list |-> <<>>]}
    \cup {[given |-> TRUE, list |-> l] : l \in {<<>>} \cup SeqsUpTo(Pubkeys, MaxAdmins)}

\* a client that passes the caller's list on as it is
createGroupAdminsAsGiven(pubkey, listed) ==
  IF listed.given THEN listed.list ELSE <<>>

\* the adminPubkeys handed to createSimpleGroup
createGroupAdmins(pubkey, listed) ==
  <<pubkey>> \o (IF listed.given THEN listed.list ELSE <<>>)

InitCreate ==
  /\ group = [m \in Members |-> NewRuntime]
  /\ delivered = [m \in Members |-> NothingDelivered]
  /\ events = <<>>
  /\ admin = NewAdmin
  /\ client = NewClient
  /\ chat = NewChat(<<>>)
  /\ mgr = NewManager("g1")
  /\ gstore = NewGroupStore
  /\ loader = NewLoader
  /\ joiner = NewJoiner
  /\ life = [g \in GroupIds |-> StoredGroup]
  /\ hist = NewHistory
  /\ pager = NewPager(1)
  /\ \E pubkey \in Pubkeys, listed \in AdminOptions :
       calc = [op |-> "options", pubkey |-> pubkey, adminPubkeys |-> listed]

\* createGroup: the group is created with the signer as its only member and
\* the admin list in its Marmot group data, stored, cached and returned
CreateGroup ==
  /\ calc.op = "options"
  /\ calc' = [op |-> "createGroup", pubkey |-> calc.pubkey,
              adminPubkeys |-> calc.adminPubkeys,
              group |-> [members |-> {calc.pubkey},
                         adminPubkeys |-> createGroupAdmins(calc.pubkey,
                                                            calc.adminPubkeys)]]
  /\ UNCHANGED <<ingestVars, inviteVars, client, hist, pager, joiner, life, loader, gstore, mgr, chat>>

NextCreate == CreateGroup

SpecCreate == InitCreate /\ [][NextCreate]_vars

(***************************************************************************)
(* createPaginatedLoader over IdbRumorHistoryBackend, drained by for-await. *)
(***************************************************************************)
RumorTimes == 8..10

\* the stored rumors: rumor i was created at times[i]
StoredRumors(times) ==
  {[id |-> i, created_at |-> times[i]] : i \in DOMAIN times}

StoredHistories ==
  {StoredRumors(times) : times \in UNION {[1..n -> RumorTimes] : n \in 0..MaxRumors}}

UntilOptions == {NoUntil} \cup {[set |-> TRUE, at |-> t] : t \in RumorTimes}

\* the index by_group_created_at read backwards: created_at, then the
\* primary key, both descending
indexPrev(r1, r2) ==
  \/ r1.created_at > r2.created_at
  \/ r1.created_at = r2.created_at /\ r1.id > r2.id

RECURSIVE readPrev(_, _)
readPrev(range, limit) ==
  IF range = {} \/ limit = 0 THEN <<>>
  ELSE LET cur == CHOOSE r \in range : \A o \in range \ {r} : indexPrev(r, o)
       IN <<cur>> \o readPrev(range \ {cur}, limit - 1)

\* IdbRumorHistoryBackend.queryRumors: the range [since ?? 0, until ?? MAX]
\* with both ends included, newest first, at most limit rumors
backendQueryRumors(stored, until, limit) ==
  readPrev({r \in stored : r.created_at >= 0
                           /\ (until.set => r.created_at <= until.at)}, limit)

\* Math.min(...rumors.map((rumor) => rumor.created_at))
oldestOf(rumors) ==
  CHOOSE t \in {rumors[k].created_at : k \in DOMAIN rumors} :
    \A k \in DOMAIN rumors : t <= rumors[k].created_at

\* if (!cursor || oldest < cursor) cursor = oldest - 1
nextCursor(cursor, oldest) ==
  IF ~cursor.set \/ cursor.at = 0 \/ oldest < cursor.at
    THEN [set |-> TRUE, at |-> oldest - 1]
    ELSE cursor

loaderPage == backendQueryRumors(loader.stored, loader.cursor, loader.limit)

pageIds(rumors) == {rumors[k].id : k \in DOMAIN rumors}

\* how often each rumor was put on a page: 0, 1, or 2 for more than once
seenAfter(seen, rumors) ==
  [i \in DOMAIN seen |->
     IF i \in pageIds(rumors) THEN (IF seen[i] = 0 THEN 1 ELSE 2) ELSE seen[i]]

\* the backend queries made so far, kept as their parity
queriesAfter(queries) == (queries + 1) % 2

InitLoader ==
  /\ group = [m \in Members |-> NewRuntime]
  /\ delivered = [m \in Members |-> NothingDelivered]
  /\ events = <<>>
  /\ admin = NewAdmin
  /\ client = NewClient
  /\ chat = NewChat(<<>>)
  /\ mgr = NewManager("g1")
  /\ gstore = NewGroupStore
  /\ joiner = NewJoiner
  /\ life = [g \in GroupIds |-> StoredGroup]
  /\ hist = NewHistory
  /\ pager = NewPager(1)
  /\ calc = NoCall
  /\ \E stored \in StoredHistories, limit \in 1..MaxLimit, until \in UntilOptions :
       loader = [pc |-> "running", stored |-> stored, limit |-> limit,
                 until |-> until, cursor |-> until, queries |-> 0,
                 seen |-> [i \in {r.id : r \in stored} |-> 0],
                 received |-> {}, returned |-> {}]

\* one next() of the generator that ends in `yield rumors`: the for-await
\* loop runs its body with the page
LoaderYields ==
  /\ loader.pc = "running"
  /\ Len(loaderPage) >= loader.limit
  /\ loader' = [loader EXCEPT
                  !.queries = queriesAfter(loader.queries),
                  !.cursor = nextCursor(loader.cursor, oldestOf(loaderPage)),
                  !.seen = seenAfter(loader.seen, loaderPage),
                  !.received = loader.received \cup pageIds(loaderPage)]
  /\ UNCHANGED <<ingestVars, inviteVars, client, hist, pager, calc, joiner, life, gstore, mgr, chat>>

\* one next() that ends in `return rumors`: the generator is done, and the
\* for-await loop ends without running its body for the returned value
LoaderReturns ==
  /\ loader.pc = "running"
  /\ Len(loaderPage) < loader.limit
  /\ loader' = [loader EXCEPT
                  !.pc = "done",
                  !.queries = queriesAfter(loader.queries),
                  !.cursor = IF Len(loaderPage) = 0 THEN loader.cursor
                             ELSE nextCursor(loader.cursor, oldestOf(loaderPage)),
                  !.seen = seenAfter(loader.seen, loaderPage),
                  !.returned = pageIds(loaderPage)]
  /\ UNCHANGED <<ingestVars, inviteVars, client, hist, pager, calc, joiner, life, gstore, mgr, chat>>

NextLoader == LoaderYields \/ LoaderReturns

SpecLoader == InitLoader /\ [][NextLoader]_vars

\* the for-await loop asks for the next page as long as the generator is
\* not done
SpecLoaderLive == SpecLoader /\ WF_vars(NextLoader)

(***************************************************************************)
(* The group store and the client's cache under joinGroupFromWelcome,      *)
(* importGroupFromClientState and the saves of a running group.            *)
(***************************************************************************)
\* the epoch of the state that joinGroup builds from the Welcome
WelcomeEpoch == 1

\* GroupStore.add: backend.setItem(key, state), whatever the key held
groupStoreAdd(stored, epoch) == epoch

\* the event GroupStore.add emits after setItem
groupStoreAddEmits == "clientStateAdded"

\* the event GroupStore.update emits after setItem
groupStoreUpdateEmits == "clientStateAdded"

\* joinGroupFromWelcome once a key package has matched: the state is added
\* to the store and a new MarmotGroup replaces the cached instance; the key
\* package stays in its store, so the same Welcome can be joined again
JoinGroupFromWelcome ==
  /\ gstore' = [gstore EXCEPT
                  !.stored = groupStoreAdd(gstore.stored, WelcomeEpoch),
                  !.cached = WelcomeEpoch,
                  !.emitted = groupStoreAddEmits,
                  !.op = "join"]
  /\ UNCHANGED <<ingestVars, inviteVars, client, hist, pager, calc, joiner, life, loader, mgr, chat>>

\* the cached runtime applies a commit and saves its state
SaveCommit ==
  /\ gstore.cached # NoState
  /\ gstore.cached < MaxEpoch
  /\ gstore' = [gstore EXCEPT !.stored = gstore.cached + 1,
                              !.cached = gstore.cached + 1,
                              !.emitted = groupStoreUpdateEmits,
                              !.op = "save"]
  /\ UNCHANGED <<ingestVars, inviteVars, client, hist, pager, calc, joiner, life, loader, mgr, chat>>

\* importGroupFromClientState up to its first await: has(id), and the throw
\* when the id is present
ImportHas(c) ==
  /\ gstore.import[c].pc = "idle"
  /\ \E epoch \in 0..MaxEpoch :
       gstore' = [gstore EXCEPT
                    !.import[c] = [pc |-> IF gstore.stored # NoState
                                            THEN "rejected" ELSE "checked",
                                   epoch |-> epoch],
                    !.op = "has"]
  /\ UNCHANGED <<ingestVars, inviteVars, client, hist, pager, calc, joiner, life, loader, mgr, chat>>

\* the rest of importGroupFromClientState: the runtime is built, the state
\* added to the store, the runtime cached
ImportAdd(c) ==
  /\ gstore.import[c].pc = "checked"
  /\ gstore' = [gstore EXCEPT
                  !.stored = groupStoreAdd(gstore.stored, gstore.import[c].epoch),
                  !.cached = gstore.import[c].epoch,
                  !.import[c].pc = "done",
                  !.emitted = groupStoreAddEmits,
                  !.op = "add"]
  /\ UNCHANGED <<ingestVars, inviteVars, client, hist, pager, calc, joiner, life, loader, mgr, chat>>

\* GroupStore.update with the state of the cached runtime: the state is
\* written over what the key holds, then the event is emitted
GroupStoreUpdate ==
  /\ gstore.cached # NoState
  /\ gstore' = [gstore EXCEPT !.stored = gstore.cached,
                              !.emitted = groupStoreUpdateEmits,
                              !.op = "update"]
  /\ UNCHANGED <<ingestVars, inviteVars, client, hist, pager, calc, joiner, life, loader, mgr, chat>>

NextStore ==
  \/ JoinGroupFromWelcome
  \/ SaveCommit
  \/ GroupStoreUpdate
  \/ \E c \in Callers : ImportHas(c)
  \/ \E c \in Callers : ImportAdd(c)

SpecStore == Init /\ [][NextStore]_vars

(***************************************************************************)
(* GroupSubscriptionManager: start, stop, reconcileSubscriptions,          *)
(* subscribeToGroup, processEvents and fetchHistoricalEvents.              *)
(***************************************************************************)
ManagerEvents == {1, 2}

\* a kind-445 event published to the group: its h tag is the routing id
groupEvent(m, e) == [id |-> e, kind |-> GROUP_EVENT_KIND, h |-> m.nostrGroupId]

\* subscribeToGroup's filter: { kinds: [GROUP_EVENT_KIND], "#h": [groupIdHex] }
\* with groupIdHex the id listed by the group store
subscriptionFilter(m) == [kinds |-> {GROUP_EVENT_KIND}, h |-> {m.groupId}]

\* the relay's match of an event against a filter
relayMatches(filter, event) ==
  event.kind \in filter.kinds /\ event.h \in filter.h

\* the events of a batch that the relay sends for the manager's filter
relayBatch(m, batch) ==
  {e \in batch : relayMatches(subscriptionFilter(m), groupEvent(m, e))}

\* processEvents over the seenEventIds of subscription s: the new events are
\* marked seen, then ingested; ingest returns or throws, and a throw is
\* caught and logged
processEvents(m, s, batch, ingestThrows) ==
  LET newEvents == batch \ m.seenEventIds[s]
  IN [m EXCEPT !.seenEventIds[s] = @ \cup newEvents,
               !.ingested[s] = IF ingestThrows THEN @ ELSE @ \cup newEvents]

\* unsubscribeFromGroup, and the body of stop()'s loop
unsubscribeFromGroup(m) ==
  [m EXCEPT !.open = @ \ {m.groupSubscriptions}, !.groupSubscriptions = 0]

doneReconcile(m, t) == [m EXCEPT !.call[t] = [pc |-> "done", sid |-> 0]]

managerFrame ==
  UNCHANGED <<ingestVars, inviteVars, client, hist, pager, calc, joiner, life,
              loader, gstore, chat>>

InitManager ==
  /\ group = [m \in Members |-> NewRuntime]
  /\ delivered = [m \in Members |-> NothingDelivered]
  /\ events = <<>>
  /\ admin = NewAdmin
  /\ client = NewClient
  /\ chat = NewChat(<<>>)
  /\ joiner = NewJoiner
  /\ life = [g \in GroupIds |-> StoredGroup]
  /\ hist = NewHistory
  /\ pager = NewPager(1)
  /\ calc = NoCall
  /\ loader = NewLoader
  /\ gstore = NewGroupStore
  /\ \E nostrGroupId \in {"g1", "n1"} : mgr = NewManager(nostrGroupId)

\* start() up to its await: isActive is set and reconcileSubscriptions is
\* entered, which awaits the store's list()
ManagerStart ==
  /\ ~mgr.isActive
  /\ mgr.call["start"].pc \in {"idle", "done"}
  /\ mgr' = [mgr EXCEPT !.isActive = TRUE,
                        !.call["start"] = [pc |-> "list", sid |-> 0]]
  /\ managerFrame

\* stop(): every tracked subscription is closed and forgotten
ManagerStop ==
  /\ mgr.isActive
  /\ mgr' = [unsubscribeFromGroup(mgr) EXCEPT !.isActive = FALSE]
  /\ managerFrame

\* the group store changes and its subscriber calls reconcileSubscriptions
StoreChanges ==
  /\ mgr.call["groupStore$"].pc \in {"idle", "done"}
  /\ \E inStore \in BOOLEAN :
       mgr' = [mgr EXCEPT !.inStore = inStore,
                          !.call["groupStore$"] =
                             [pc |-> IF mgr.isActive THEN "list" ELSE "done",
                              sid |-> 0]]
  /\ managerFrame

\* list() resolves: a group without an entry is subscribed to, which awaits
\* getGroup; otherwise the second loop drops the entry of a group that is
\* not listed
ReconcileLists(t) ==
  /\ mgr.call[t].pc = "list"
  /\ mgr' = IF mgr.inStore /\ mgr.groupSubscriptions = 0
              THEN [mgr EXCEPT !.call[t].pc = "getGroup"]
            ELSE IF ~mgr.inStore /\ mgr.groupSubscriptions # 0
              THEN doneReconcile(unsubscribeFromGroup(mgr), t)
            ELSE doneReconcile(mgr, t)
  /\ managerFrame

\* getGroup resolves in subscribeToGroup: the relay subscription is opened
\* and stored in groupSubscriptions, then the historical fetch is awaited;
\* a getGroup that throws is caught and logged
SubscribeToGroup(t) ==
  /\ mgr.call[t].pc = "getGroup"
  /\ mgr.made < MaxSubs
  /\ mgr' = IF ~mgr.inStore
              THEN doneReconcile(mgr, t)
              ELSE [mgr EXCEPT !.made = @ + 1,
                               !.open = @ \cup {mgr.made + 1},
                               !.groupSubscriptions = mgr.made + 1,
                               !.call[t] = [pc |-> "fetch", sid |-> mgr.made + 1]]
  /\ managerFrame

\* the historical request resolves: its events go through processEvents
\* with the subscription's seenEventIds, and reconcileSubscriptions ends
FetchHistoricalEvents(t) ==
  /\ mgr.call[t].pc = "fetch"
  /\ \E batch \in SUBSET ManagerEvents, ingestThrows \in BOOLEAN :
       mgr' = doneReconcile(processEvents(mgr, mgr.call[t].sid,
                                          relayBatch(mgr, batch), ingestThrows), t)
  /\ managerFrame

\* an open subscription receives events from the relay
LiveEvents(s) ==
  /\ s \in mgr.open
  /\ \E batch \in SUBSET ManagerEvents, ingestThrows \in BOOLEAN :
       /\ relayBatch(mgr, batch) # {}
       /\ mgr' = processEvents(mgr, s, relayBatch(mgr, batch), ingestThrows)
  /\ managerFrame

NextManager ==
  \/ ManagerStart
  \/ ManagerStop
  \/ StoreChanges
  \/ \E t \in Reconcilers : ReconcileLists(t)
  \/ \E t \in Reconcilers : SubscribeToGroup(t)
  \/ \E t \in Reconcilers : FetchHistoricalEvents(t)
  \/ \E s \in 1..MaxSubs : LiveEvents(s)

SpecManager == InitManager /\ [][NextManager]_vars

(***************************************************************************)
(* The chat view's message list: addNewMessages.                           *)
(***************************************************************************)
ChatTimes == 5..6

\* messageMap.set(msg.id, msg): a new key goes last, a known key keeps its
\* place
messageMapSet(keys, id) ==
  IF \E k \in 1..Len(keys) : keys[k] = id THEN keys ELSE Append(keys, id)

RECURSIVE messageMapSetAll(_, _)
messageMapSetAll(keys, msgs) ==
  IF msgs = <<>> THEN keys
  ELSE messageMapSetAll(messageMapSet(keys, Head(msgs)), Tail(msgs))

\* one element put into a list sorted by created_at, behind its equals
insertByCreatedAt(sorted, id, times) ==
  LET before == SelectSeq(sorted, LAMBDA o : times[o] <= times[id])
      after == SelectSeq(sorted, LAMBDA o : times[o] > times[id])
  IN before \o <<id>> \o after

\* combined.sort((a, b) => a.created_at - b.created_at): a stable sort
RECURSIVE sortByCreatedAt(_, _)
sortByCreatedAt(list, times) ==
  IF list = <<>> THEN <<>>
  ELSE insertByCreatedAt(sortByCreatedAt(SubSeq(list, 1, Len(list) - 1), times),
                         list[Len(list)], times)

addNewMessages(prev, newMessages, times) ==
  sortByCreatedAt(messageMapSetAll(messageMapSetAll(<<>>, prev), newMessages), times)

\* the rumors of a list in the order of (created_at, id)
RECURSIVE byCreatedAtThenId(_, _)
byCreatedAtThenId(ids, times) ==
  IF ids = {} THEN <<>>
  ELSE LET first == CHOOSE i \in ids : \A o \in ids \ {i} :
                      \/ times[i] < times[o]
                      \/ times[i] = times[o] /\ i < o
       IN <<first>> \o byCreatedAtThenId(ids \ {first}, times)

InitChat ==
  /\ group = [m \in Members |-> NewRuntime]
  /\ delivered = [m \in Members |-> NothingDelivered]
  /\ events = <<>>
  /\ admin = NewAdmin
  /\ client = NewClient
  /\ joiner = NewJoiner
  /\ life = [g \in GroupIds |-> StoredGroup]
  /\ hist = NewHistory
  /\ pager = NewPager(1)
  /\ calc = NoCall
  /\ loader = NewLoader
  /\ gstore = NewGroupStore
  /\ mgr = NewManager("g1")
  /\ \E times \in [1..MaxMessages -> ChatTimes] : chat = NewChat(times)

\* a page of history or live rumors arrives and addNewMessages merges it
AddNewMessages ==
  /\ \E newMessages \in SeqsUpTo(1..MaxMessages, 2) :
       chat' = [chat EXCEPT
                  !.messages = addNewMessages(chat.messages, newMessages,
                                              chat.created_at)]
  /\ UNCHANGED <<ingestVars, inviteVars, client, hist, pager, calc, joiner, life,
                 loader, gstore, mgr>>

NextChat == AddNewMessages

SpecChat == InitChat /\ [][NextChat]_vars

(***************************************************************************)
(* Properties.                                                             *)
(***************************************************************************)
RumorIds(R) == {x.rumor : x \in R.rumors}
Delivered(m) == delivered[m].first \cup delivered[m].later

\* the admin commits of a set of events that are built against the initial epoch
AdminCommitsAtInitialEpoch(ids) ==
  {i \in ids : /\ OuterEvent(i).kind = "commit"
               /\ OuterEvent(i).epoch = InitialState.epoch
               /\ OuterEvent(i).parent = InitialState.commits
               /\ OuterEvent(i).sender \in adminPubkeys}

\* the event of a set with the smallest created_at, ties broken by the
\* smallest id
Earliest(ids) ==
  CHOOSE w \in ids : \A j \in ids :
    \/ OuterEvent(w).created_at < OuterEvent(j).created_at
    \/ (OuterEvent(w).created_at = OuterEvent(j).created_at /\ w <= j)

\* C1: two runtimes whose first batch holds the same events, in any order and
\* with any repetitions, and whose later batches only replay events of that
\* first batch, hold the same MLS snapshot, the same rumors and the same
\* resume cursor; each replayed application message has one history entry.
IngestIdempotent ==
  \A a, b \in Members :
    (/\ delivered[a].calls >= 1
     /\ delivered[b].calls >= 1
     /\ delivered[a].first = delivered[b].first
     /\ delivered[a].later \subseteq delivered[a].first
     /\ delivered[b].later \subseteq delivered[b].first)
    => /\ group[a].store = group[b].store
       /\ RumorIds(group[a]) = RumorIds(group[b])
       /\ getResumeCursor(group[a].processed) = getResumeCursor(group[b].processed)
       /\ \A x, y \in group[a].rumors : x.rumor = y.rumor => x = y

\* C1 witness: one member ingested an application message twice, in two
\* calls, the other ingested it once, and its rumor is in the history
IngestIdempotentWitness ==
  \E a, b \in Members :
    /\ delivered[a].calls = 2
    /\ delivered[b].calls = 1
    /\ delivered[a].first = delivered[b].first
    /\ 4 \in delivered[a].first /\ 4 \in delivered[a].later
    /\ 104 \in RumorIds(group[a])
    /\ group[a].processed = Cursor(4)

HonestMembersConverge ==
  (/\ delivered[1].calls >= 1
   /\ delivered[2].calls >= 1
   /\ Delivered(1) = Delivered(2))
  => /\ group[1].store.epoch = group[2].store.epoch
     /\ group[1].store.commits = group[2].store.commits

\* the steps of the single runtime
ProcessStep(i) ==
  /\ group[1].pc = "run"
  /\ HasWork(group[1])
  /\ HeadEvent(group[1]) = i
  /\ group'[1].lastResult.id = i

CompleteStep ==
  /\ group[1].pc = "run"
  /\ group'[1].pc = "idle"
  /\ group'[1].ended = "done"

CancelStep ==
  /\ group[1].pc = "run"
  /\ group'[1].pc = "idle"
  /\ group'[1].ended = "cancelled"

ResumeCursorMonotonic ==
  [][compareCursor(getResumeCursor(group[1].processed),
                   getResumeCursor(group'[1].processed)) <= 0]_vars

\* C4 witness: an event was recorded as processed while the resume cursor was
\* already at a greater cursor
ResumeCursorMonotonicWitness ==
  /\ group[1].lastResult = [id |-> 1, kind |-> "newState"]
  /\ 1 \in group[1].seenEventIds
  /\ ~group[1].historyFailed
  /\ getResumeCursor(group[1].processed) = Cursor(4)

ReplayAfterCrashEqualsUninterrupted ==
  [][(/\ CompleteStep
      /\ group[1].crash.phase = "replaying"
      /\ ~group'[1].historyFailed)
       => View(group'[1])
            = View(ingest(FromSnapshot(group[1].crash.base), group[1].crash.batch))]_vars

\* C9: a cancelled call leaves the stores as processing a prefix of the batch
\* in composite-cursor order leaves them.
CancelledIsPrefix ==
  [][(CancelStep /\ ~group[1].historyFailed)
       => \E k \in 0..Len(group[1].batch) :
            LET prefix == SubSeq(Sort(group[1].batch, FALSE), 1, k)
                start == FromSnapshot(group[1].base)
            IN View(group'[1]) \in {View(IngestEach(start, prefix)),
                                    View(ingest(start, prefix))}]_vars

\* C10: a call in which a history write failed still completes, has
\* classified every event of its batch, and leaves in memory and in the
\* group-state store the MLS state of the call without the failure.
HistoryFailureDoesNotBlockState ==
  [][(CompleteStep /\ group'[1].historyFailed)
       => LET whole == ingest(FromSnapshot(group[1].base), group[1].batch)
          IN /\ group'[1].store = whole.store
             /\ group'[1].state = whole.state
             /\ Range(group[1].batch) \subseteq group'[1].seenEventIds]_vars

\* C10 witness: a call completed in which a history write failed and the
\* epoch advanced and was persisted
HistoryFailureDoesNotBlockStateWitness ==
  /\ group[1].pc = "idle"
  /\ group[1].ended = "done"
  /\ group[1].historyFailed
  /\ group[1].store.epoch = 1
  /\ group[1].store.commits = <<1>>
  /\ getResumeCursor(group[1].processed) = NoCursor

\* C5: every Welcome gift-wrap the relays hold comes after the commit of its
\* invitation, and that commit was acknowledged by a relay.
WelcomeAfterCommitAck ==
  \A k \in 1..Len(events) :
    events[k].kind = GIFT_WRAP_KIND
      => \E j \in 1..(k - 1) :
           /\ events[j].kind = GROUP_EVENT_KIND
           /\ events[j].invite = events[k].invite
           /\ events[j].acks # {}

\* C5 witness: a commit that no relay acknowledged was followed by no Welcome,
\* and a later acknowledged commit by the Welcomes of both invitees
WelcomeAfterCommitAckWitness ==
  /\ Len(events) = 4
  /\ events[1].kind = GROUP_EVENT_KIND /\ events[1].acks = {}
  /\ events[2].kind = GROUP_EVENT_KIND /\ events[2].acks # {}
  /\ events[3].kind = GIFT_WRAP_KIND
  /\ events[4].kind = GIFT_WRAP_KIND

\* the events of invitation n that the relays hold
InviteEvents(n, kind) ==
  {k \in 1..Len(events) : events[k].invite = n /\ events[k].kind = kind}

\* C11: an invitation whose commit could not be published or was acknowledged
\* by no relay has no Welcome on the relays; while it is the admin's latest
\* invitation, commit() has failed or is about to fail with an error and the
\* admin's MLS state and stored snapshot are at the epoch before the commit.
UnackedCommitFails ==
  /\ \A k \in 1..Len(events) :
       (events[k].kind = GROUP_EVENT_KIND /\ events[k].acks = {})
         => /\ InviteEvents(events[k].invite, GIFT_WRAP_KIND) = {}
            /\ admin.invite = events[k].invite
                 => /\ admin.epoch = admin.before
                    /\ admin.stored = admin.storedBefore
                    /\ admin.invitees = {} \/ admin.pc = "ack"
                    /\ admin.pc = "idle" => admin.error = "NoRelayAck"
  /\ admin.error = "PublishFailed"
       => /\ InviteEvents(admin.invite, GROUP_EVENT_KIND) = {}
          /\ InviteEvents(admin.invite, GIFT_WRAP_KIND) = {}
          /\ admin.epoch = admin.before
          /\ admin.stored = admin.storedBefore

\* C11 witness: after an invitation that succeeded, the commit of a second one
\* was published, no relay acknowledged it and commit() failed
UnackedCommitFailsWitness ==
  /\ admin.pc = "idle"
  /\ admin.error = "NoRelayAck"
  /\ admin.invite = 2
  /\ admin.epoch = 1
  /\ admin.stored = 1
  /\ Len(events) >= 3
  /\ events[Len(events)].kind = GROUP_EVENT_KIND
  /\ events[Len(events)].acks = {}

\* C13: a call of ingest always ends: the unreadable events of the call are
\* tried again at most maxRetries times, and every started call returns.
IngestTerminates ==
  /\ [](group[1].retryCount <= maxRetries)
  /\ (group[1].pc = "run") ~> (group[1].pc = "idle")

\* C13 witness: an event is still unreadable after maxRetries retries and the
\* call is about to end with it
IngestTerminatesWitness ==
  /\ group[1].pc = "run"
  /\ group[1].retryCount = maxRetries
  /\ group[1].unreadable # <<>>
  /\ CanFinish(group[1])

\* the outcomes of an event that is not applied
NotApplied == {"unreadable", "rejected", "loser"}

\* the application messages of the running call that the state at the start of
\* the call can decrypt
ReadableAtStart(R) ==
  {i \in Range(R.batch) : /\ OuterEvent(i).kind = "app"
                          /\ Decryptable(R.base.state, i)
                          /\ i \notin R.base.state.consumed}

\* C14: an event that is unreadable or rejected is reported as its classified
\* outcome and the call goes on; a call that runs to its end has handled every
\* event of its batch, and every application message that was decryptable is
\* in the history (history writes succeeding).
UnreadableDoesNotBlock ==
  [][/\ \A i \in EventIds :
          (ProcessStep(i) /\ processMessage(group[1].state, i).result \in NotApplied)
            => /\ group'[1].pc = "run"
               /\ group'[1].lastResult.kind = processMessage(group[1].state, i).result
               /\ group'[1].state = group[1].state
               /\ group'[1].nonCommits \o group'[1].commits
                    = Tail(group[1].nonCommits \o group[1].commits)
     /\ (group[1].pc = "run" /\ group'[1].pc = "idle"
           /\ group'[1].ended \notin {"cancelled", "crashed", "halted"})
          => /\ group'[1].ended = "done"
             /\ Range(group[1].batch) \subseteq group'[1].seenEventIds
             /\ ~group'[1].historyFailed
                  => \A i \in ReadableAtStart(group[1]) :
                       OuterEvent(i).rumor \in RumorIds(group'[1])
    ]_vars

\* C14 witness: a call whose batch held a rejected commit, an undecryptable
\* event and a readable application message is about to end, the message stored
UnreadableDoesNotBlockWitness ==
  /\ group[1].pc = "run"
  /\ CanFinish(group[1])
  /\ {3, 4, 6} \subseteq Range(group[1].batch)
  /\ 6 \in Range(group[1].unreadable)
  /\ group[1].retryCount = maxRetries
  /\ 3 \in group[1].seenEventIds
  /\ group[1].state = group[1].base.state
       \/ group[1].state.consumed = group[1].base.state.consumed \cup {4}
  /\ ~group[1].historyFailed
  /\ OuterEvent(4).rumor \in RumorIds(group[1])

\* C16: the getGroup calls that began and returned with no unloadGroup since
\* the same number of unloads returned one and the same instance.
OneLiveInstance ==
  \A x, y \in client.returned :
    x.unloads = y.unloads => x.instance = y.instance

\* C17: every call of the subscriber directly follows the successful backend
\* write of the same rumor, which is then stored; a failed backend write is
\* followed by no call of the subscriber.
NotifyAfterPersist ==
  \A k \in 1..Len(hist.calls) :
    hist.calls[k].what = "subscriber"
      => /\ k > 1
         /\ hist.calls[k - 1] = [what |-> "backend:addRumor",
                                 rumor |-> hist.calls[k].rumor]
         /\ \E x \in hist.entries : x.rumor = hist.calls[k].rumor

\* C17 witness: with a handler subscribed, one backend write failed and a later
\* one succeeded and was notified
NotifyAfterPersistWitness ==
  /\ Len(hist.calls) = 3
  /\ hist.calls[1].what = "backend:failed"
  /\ hist.calls[2].what = "backend:addRumor"
  /\ hist.calls[3].what = "subscriber"

\* C18: the history of a group holds at most one entry for a rumor id, also
\* when the rumor was added under two outer cursors.
OneEntryPerRumor ==
  \A x, y \in hist.entries : x.rumor = y.rumor => x = y

\* the greatest of a set of cursors under the composite order, NoCursor (null)
\* for the empty set
Greatest(cursors) ==
  IF cursors = {} THEN NoCursor
  ELSE CHOOSE c \in cursors : \A d \in cursors : compareCursor(d, c) <= 0

\* C19: getResumeCursor returns the greatest cursor that markOuterEventProcessed
\* was called with, null when there was no call; a call with a cursor that is
\* not greater than the stored one leaves the stored one as it is.
ResumeCursorIsGreatest ==
  /\ [](getResumeCursor(hist.processed) = Greatest(hist.marked))
  /\ [][\A c \in HistCursors :
          (/\ hist'.marked = hist.marked \cup {c}
           /\ hist.processed # NoCursor
           /\ compareCursor(c, hist.processed) <= 0)
            => hist'.processed = hist.processed]_vars

\* C19 witness: two cursors of the same second were marked, the greater one
\* first, and the greater one is stored
ResumeCursorIsGreatestWitness ==
  /\ hist.marked = {[created_at |-> 10, id |-> 1], [created_at |-> 10, id |-> 2]}
  /\ hist.processed = [created_at |-> 10, id |-> 2]

\* C20: paging newest-first with an exclusive `until` set to the oldest entry
\* of the page before returns no entry twice, returns the entries from the
\* newest to the oldest, and has returned every stored entry when the empty
\* page comes back.
PagingVisitsAllOnce ==
  /\ \A j, k \in 1..Len(pager.seen) : pager.seen[j] = pager.seen[k] => j = k
  /\ \A k \in 1..Len(pager.seen) : pager.seen[k] \in {x.rumor : x \in hist.entries}
  /\ \A j, k \in 1..Len(pager.seen) :
       j < k => compareCursor(EntryOf(pager.seen[k]).outer,
                              EntryOf(pager.seen[j]).outer) = -1
  /\ pager.done => Range(pager.seen) = {x.rumor : x \in hist.entries}

\* C20 witness: five entries, pages of two: the second page ends inside the
\* second that three entries share, and the reader is done after the third
PagingVisitsAllOnceWitness ==
  /\ pager.done
  /\ pager.limit = 2
  /\ hist.entries = PagerEntries
  /\ Len(pager.seen) = 5
  /\ pager.until = [created_at |-> 100, id |-> 1]

\* C21: compareCursor is a strict total order by created_at, then id: the
\* result is -1, 0 or 1, it is 0 exactly for equal cursors, swapping the
\* arguments negates it, it is transitive, an earlier created_at comes first
\* and on equal created_at the smaller id comes first.
CompareCursorTotalOrder ==
  calc.op = "compareCursor"
    => /\ calc.ab \in {-1, 0, 1}
       /\ calc.ab = 0 <=> (calc.a.created_at = calc.b.created_at /\ calc.a.id = calc.b.id)
       /\ calc.ab = -calc.ba
       /\ (calc.ab = -1 /\ calc.bc = -1) => calc.ac = -1
       /\ calc.a.created_at < calc.b.created_at => calc.ab = -1
       /\ (calc.a.created_at = calc.b.created_at /\ calc.a.id < calc.b.id)
            => calc.ab = -1

\* C21 witness: three cursors in a chain, the first two of the same second
CompareCursorTotalOrderWitness ==
  /\ calc.op = "compareCursor"
  /\ calc.a.created_at = calc.b.created_at
  /\ calc.ab = -1
  /\ calc.bc = -1
  /\ calc.ac = -1
  /\ calc.c.id < calc.a.id

\* the candidates of the call: stored, of the Welcome's ciphersuite
JoinCandidates ==
  {i \in Range(joiner.keyPackages) :
     KeyPackage(i).cipherSuite = joiner.welcome.cipherSuite}

UsedKeyPackageRemoved ==
  (joiner.pc = "done" /\ ~KeyPackage(joiner.used).lastResort)
    => joiner.used \notin Range(joiner.keyPackages)

\* C25: once destroyGroup(g) has resolved, the MLS state of g is out of the
\* group store, its history is purged, g is not cached, and a getGroup(g)
\* issued afterwards has not loaded the group again.
DestroyedWhenResolved ==
  \A g \in GroupIds :
    life[g].pc = "resolved"
      => /\ ~life[g].state
         /\ ~life[g].history
         /\ ~life[g].cached
         /\ life[g].get # "loaded"

\* C26: a step of an ingest call never lowers the epoch and raises it by one
\* at most, and only by applying a commit of an admin that was built in the
\* current epoch; processing an event of an earlier epoch leaves the epoch as
\* it is and the call goes on.
EpochOnlyAdvancesByCommit ==
  [][(group[1].pc = "run" \/ group'[1].pc = "run")
       => /\ group'[1].state.epoch \in {group[1].state.epoch, group[1].state.epoch + 1}
          /\ group'[1].state.epoch = group[1].state.epoch + 1
               => /\ HasWork(group[1])
                  /\ OuterEvent(HeadEvent(group[1])).kind = "commit"
                  /\ OuterEvent(HeadEvent(group[1])).epoch = group[1].state.epoch
                  /\ OuterEvent(HeadEvent(group[1])).sender \in adminPubkeys
                  /\ group'[1].state.commits
                       = Append(group[1].state.commits, HeadEvent(group[1]))
          /\ \A i \in EventIds :
               (ProcessStep(i) /\ OuterEvent(i).kind # "garbage"
                  /\ OuterEvent(i).epoch < group[1].state.epoch)
                 => /\ group'[1].state = group[1].state
                    /\ group'[1].pc = "run"
     ]_vars

\* C26 witness: a runtime at epoch 1 is handed a commit of epoch 0 again; it is
\* still unreadable after the last retry and the state is the one the call
\* started with
EpochOnlyAdvancesByCommitWitness ==
  /\ group[1].pc = "run"
  /\ group[1].state.epoch = 1
  /\ group[1].base.state = group[1].state
  /\ \E i \in Range(group[1].unreadable) :
       OuterEvent(i).kind = "commit" /\ OuterEvent(i).epoch = 0
  /\ group[1].retryCount = maxRetries

\* C27: the admin list of a created group contains the creator's pubkey,
\* whatever adminPubkeys the caller passed or left out.
CreatorIsAdmin ==
  calc.op = "createGroup"
    => \E k \in 1..Len(calc.group.adminPubkeys) :
         calc.group.adminPubkeys[k] = calc.pubkey

\* C27 witness: a group created with a list of two other pubkeys
CreatorIsAdminWitness ==
  /\ calc.op = "createGroup"
  /\ calc.pubkey = "A"
  /\ calc.adminPubkeys = [given |-> TRUE, list |-> <<"B", "C">>]
  /\ Len(calc.group.adminPubkeys) = 3

\* C28: draining the paginated loader ends: for every stored history, limit
\* and starting cursor the generator is eventually done.
LoaderTerminates == <>(loader.pc = "done")

\* C29: over all pages of the loader, yielded or returned, no stored rumor
\* appears twice, and once the loader is done every stored rumor not newer
\* than the starting cursor has appeared.
EachRumorOnce ==
  /\ \A i \in DOMAIN loader.seen : loader.seen[i] <= 1
  /\ loader.pc = "done"
       => \A r \in loader.stored :
            (loader.until.set => r.created_at <= loader.until.at)
              => loader.seen[r.id] = 1

\* C30: when the for-await loop has ended, its body has received every page,
\* the last one included.
LastPageDelivered ==
  loader.pc = "done" => loader.returned \subseteq loader.received

\* C31: joining a group whose state is already stored replaces neither the
\* stored state nor the cached runtime, and the stored epoch of a group never
\* goes down.
JoinKeepsStoredGroup ==
  [][/\ (gstore'.op = "join" /\ gstore.stored # NoState)
          => gstore'.stored = gstore.stored /\ gstore'.cached = gstore.cached
     /\ gstore.stored # NoState => gstore'.stored >= gstore.stored]_vars

\* C32: an import of an id that is present fails and changes neither the
\* store nor the cache, and an import writes only while the id is absent, so
\* of two overlapping imports at most one writes.
ImportNeverOverwrites ==
  [][\A c \in Callers :
       /\ (gstore.import[c].pc = "idle" /\ gstore'.import[c].pc = "rejected")
            => /\ gstore.stored # NoState
               /\ gstore'.stored = gstore.stored
               /\ gstore'.cached = gstore.cached
       /\ (gstore.import[c].pc = "checked" /\ gstore'.import[c].pc = "done")
            => gstore.stored = NoState]_vars

\* C33: at most one relay subscription is open for the group, and every
\* open subscription is the one tracked in groupSubscriptions.
OneTrackedSubscription ==
  /\ Cardinality(mgr.open) <= 1
  /\ mgr.open \subseteq {mgr.groupSubscriptions}

\* C34: when the manager is stopped and no reconcile is pending, no relay
\* subscription is open.
StoppedMeansClosed ==
  (~mgr.isActive /\ \A t \in Reconcilers : mgr.call[t].pc \in {"idle", "done"})
    => mgr.open = {}

\* C35: an event is marked seen on a subscription only if an ingest that
\* did not throw has taken it, so an event of a failed batch is ingested
\* again when it is delivered again.
FailedBatchNotSeen ==
  \A s \in 1..MaxSubs : mgr.seenEventIds[s] \subseteq mgr.ingested[s]

\* C37: the filter of an open subscription matches the events published to
\* the group, whose h tag is the group's nostr_group_id.
FilterMatchesGroupEvents ==
  mgr.open # {}
    => \A e \in ManagerEvents :
         relayMatches(subscriptionFilter(mgr), groupEvent(mgr, e))

\* C38: an update of the group store emits clientStateUpdated once the state
\* is written, and clientStateAdded is emitted by add only.
UpdateEmitsUpdated ==
  gstore.op = "update"
    => /\ gstore.stored = gstore.cached
       /\ gstore.emitted = "clientStateUpdated"
       /\ gstore.emitted # "clientStateAdded"

\* C39: the message list is a function of the set of rumors merged so far:
\* no rumor id twice, ordered by created_at, and rumors that share a
\* created_at ordered by id, whatever the arrival order and batching.
MessagesIndependentOfArrival ==
  chat.messages = byCreatedAtThenId(Range(chat.messages), chat.created_at)

\* C36: when an ingest call has ended, by completing, by being cancelled or
\* by a store failure, every event of its batch that lies after the resume
\* cursor the call started from and not after the resume cursor it leaves
\* has been applied or classified, so a fetch of the events greater than the
\* resume cursor skips nothing that is still to be applied.
ResumeCursorCoversBatch ==
  [][(/\ group[1].pc = "run"
      /\ group'[1].pc = "idle"
      /\ group'[1].ended \in {"done", "cancelled", "halted"})
       => \A i \in Range(group[1].batch) :
            (/\ compareCursor(group[1].base.processed, Cursor(i)) < 0
             /\ compareCursor(Cursor(i), getResumeCursor(group'[1].processed)) <= 0)
              => i \in group'[1].seenEventIds]_vars

====
